---------------------------- MODULE Spec2Model ----------------------------
(***************************************************************************)
(* A model of three components of the engine:                              *)
(*   - the transposition table        (tt.cpp, src/unnamed/part_001)       *)
(*   - the NUMA node registry         (src/src/numasf.cpp, numasf.h)       *)
(*   - the time manager               (src/src/timeman.cpp and the         *)
(*                                     score-based variant in part_001)    *)
(*                                                                         *)
(* Representation choices:                                                 *)
(*   - A 64-bit Key is the record [hi |-> key >> 48, lo |-> low bits]; the *)
(*     bits in between are read by no code modelled here.                  *)
(*   - The table's memory is the function `table` from <<cluster, slot>>   *)
(*     to the entries that are not all-zero; every other slot of the       *)
(*     allocation holds the all-zero entry.                                *)
(*   - A double is a fixed-point number with FP units per 1.0.             *)
(***************************************************************************)
EXTENDS Integers, Sequences, FiniteSets, TLC

(***************************************************************************)
(* Bounds of the model                                                     *)
(***************************************************************************)
MaxMb       == 3   \* resize() is called with 0..MaxMb megabytes
MaxKey16    == 1   \* the upper 16 bits of a probed key range over 0..MaxKey16
MaxEntries  == 1   \* slots of the table the search fills
MaxSearches == 1   \* new_search() calls a run may perform
MaxCpus     == 8   \* logical processors the operating system reports
MaxNodes    == 2   \* NUMA nodes the operating system reports
MaxThreadIdx == 9  \* nodeForThread() is called with 0..MaxThreadIdx

(***************************************************************************)
(* Layout constants of tt.h                                                *)
(***************************************************************************)
ClusterSize   == 3
CacheLineSize == 64
ClusterBytes  == CacheLineSize      \* sizeof(Cluster)

NULL == 0

VARIABLES
  optLargePages,     \* Options["Large Pages"]
  use_large_pages,   \* global of tt.cpp
  got_privileges,    \* global of tt.cpp
  clusterCount,      \* TranspositionTable members ...
  mem,               \*   the allocation (NULL or an allocation id)
  table,             \*   the contents of *table (non-zero entries only)
  generation8,
  large_pages_used,
  mbSize_last_used,
  exited,            \* exit(EXIT_FAILURE) was called
  hashfile,          \* the file named hashfilename
  ttOp,              \* the last table operation and what it returned
  nodeVector,        \* NumaState::nodeVector
  coreCount,         \* NumaState::coreCount
  numaOp,            \* the last registry operation and what it returned
  cmhHeap,           \* how many CounterMoveHistoryStats were allocated
  cmhThread,         \* each thread's position in getCmhTable
  cmhOverlap,        \* a call of getCmhTable began during another one
  ttThread,          \* each search thread's position in probe() and save()
  optMoveOverhead,   \* Options["Move Overhead"]
  optNodestime,      \* Options["nodestime"]
  optPonder,         \* Options["Ponder"]
  limits,            \* the Search::LimitsType of the current "go"
  availableNodes,    \* TimeManagement members ...
  startTime,
  optimumTime,
  maximumTime,
  tmOp               \* the last time-manager operation and its inputs

ttVars == <<optLargePages, use_large_pages, got_privileges, clusterCount, mem,
            table, generation8, large_pages_used, mbSize_last_used,
            exited, hashfile, ttOp>>

numaVars == <<nodeVector, coreCount, numaOp>>

tmVars == <<optMoveOverhead, optNodestime, optPonder, limits, availableNodes,
            startTime, optimumTime, maximumTime, tmOp>>

cmhVars == <<cmhHeap, cmhThread, cmhOverlap>>

vars == <<ttVars, ttThread, numaVars, cmhVars, tmVars>>

(***************************************************************************)
(* Bit operations on naturals                                              *)
(***************************************************************************)
RECURSIVE BitAnd(_, _)
BitAnd(a, b) ==
  IF a = 0 \/ b = 0 THEN 0
  ELSE (a % 2) * (b % 2) + 2 * BitAnd(a \div 2, b \div 2)

\* msb(): index of the most significant set bit
RECURSIVE msb(_)
msb(b) == IF b <= 1 THEN 0 ELSE 1 + msb(b \div 2)

RECURSIVE ShiftLeft(_, _)
ShiftLeft(x, n) == IF n = 0 THEN x ELSE ShiftLeft(2 * x, n - 1)

(***************************************************************************)
(* Entries and table memory                                                *)
(***************************************************************************)
ZeroEntry ==
  [key16 |-> 0, move16 |-> 0, value16 |-> 0, eval16 |-> 0,
   genBound8 |-> 0, depth8 |-> 0]

EmptyTable == << >>

\* The entry at slot i of cluster c in memory image t
EntryAt(t, c, i) == IF <<c, i>> \in DOMAIN t THEN t[<<c, i>>] ELSE ZeroEntry

\* Memory image t with slot <<c, i>> overwritten by e
WriteEntry(t, c, i, e) ==
  LET d == IF e = ZeroEntry THEN DOMAIN t \ {<<c, i>>}
                            ELSE DOMAIN t \cup {<<c, i>>}
  IN  [p \in d |-> IF p = <<c, i>> THEN e ELSE t[p]]

\* The first n clusters of image a followed by image b from cluster n on
Splice(a, n, b) ==
  LET d == {p \in DOMAIN a : p[1] < n} \cup {p \in DOMAIN b : p[1] >= n}
  IN  [p \in d |-> IF p[1] < n THEN a[p] ELSE b[p]]


(***************************************************************************)
(* Keys                                                                    *)
(***************************************************************************)
\* key >> 48: the high 16 bits are the key inside the cluster
Key16(key) == key.hi

\* first_entry(): the cluster is selected by the low bits of the key
first_entry(key, count) == BitAnd(key.lo, count - 1)

Keys == {[hi |-> h, lo |-> l] : h \in 0..MaxKey16, l \in {0, 16385}}

NoKey == [hi |-> 0, lo |-> 0]

(***************************************************************************)
(* resize()                                                                *)
(*                                                                         *)
(* The operators below work on a record of the variables resize() reads    *)
(* and writes, so that load() can call resize() as the code does.          *)
(***************************************************************************)
Machine ==
  [use_large_pages |-> use_large_pages, got_privileges |-> got_privileges,
   clusterCount |-> clusterCount, mem |-> mem, table |-> table,
   large_pages_used |-> large_pages_used,
   mbSize_last_used |-> mbSize_last_used, exited |-> exited,
   calls |-> << >>]

\* priv: what Get_LockMemory_Privileges() answers if it is asked
Try_Get_LockMemory_Privileges(s, opt, priv) ==
  IF ~opt
  THEN [s EXCEPT !.use_large_pages = 0]
  ELSE LET gp == IF s.got_privileges = -1
                 THEN (IF priv THEN 1 ELSE 0)
                 ELSE s.got_privileges
       IN  [s EXCEPT !.got_privileges = gp,
                     !.use_large_pages = IF gp = 0 THEN 0 ELSE 1]

\* Faulty variant of NewClusterCount: the size is not rounded down to a
\* power of two
NewClusterCount_NotRounded(mbSize) == (mbSize * 1024 * 1024) \div ClusterBytes

NewClusterCount(mbSize) ==
  ShiftLeft(1, msb((mbSize * 1024 * 1024) \div ClusterBytes))

\* The early return of resize(): same count and same allocation mode
ResizeIsNoOp(s, newClusterCount) ==
  /\ newClusterCount = s.clusterCount
  /\ \/ s.use_large_pages = 1 /\ s.large_pages_used
     \/ s.use_large_pages = 0 /\ ~s.large_pages_used

\* An allocation that is not the one at `old`: allocations are told apart
\* by the ids 1 and 2
FreshAlloc(old) == IF old = 1 THEN 2 ELSE 1

\* The same for the regions VirtualAlloc returns, which lie apart from the
\* heap of calloc: they have the ids 11 and 12
FreshLarge(old) == IF old = 11 THEN 12 ELSE 11

IsLargeRegion(m) == m >= 11

\* Faulty variant of Deallocator: the memory is always given to free()
Deallocator_AlwaysFree(s) == "free"

\* if (large_pages_used) VirtualFree(mem, 0, MEM_RELEASE); else free(mem);
Deallocator(s) == IF s.large_pages_used THEN "VirtualFree" ELSE "free"

\* One call of an allocator or deallocator, with the memory it returned or
\* was given
HeapCall(call, m) == [call |-> call, mem |-> m]

\* The allocation part of resize(). va: VirtualAlloc succeeds; ca: calloc
\* succeeds. The previous allocation, if any, is released first; fresh
\* memory of either allocator is zero-filled.
Reallocate(s, newClusterCount, va, ca) ==
  LET large == s.use_large_pages >= 1 /\ va
      got   == large \/ ca
      new   == IF large THEN FreshLarge(s.mem)
               ELSE IF ca THEN FreshAlloc(s.mem) ELSE NULL
      release == IF s.mem # NULL THEN <<HeapCall(Deallocator(s), s.mem)>>
                 ELSE << >>
      acquire == IF s.use_large_pages < 1 THEN <<HeapCall("calloc", new)>>
                 ELSE IF va THEN <<HeapCall("VirtualAlloc", new)>>
                 ELSE <<HeapCall("VirtualAlloc", NULL), HeapCall("calloc", new)>>
  IN  [s EXCEPT !.clusterCount     = newClusterCount,
                !.calls            = release \o acquire,
                !.use_large_pages  = IF s.use_large_pages >= 1 /\ ~va
                                     THEN 0 ELSE s.use_large_pages,
                !.large_pages_used = large,
                !.mem              = new,
                !.table            = EmptyTable,
                !.exited           = ~got]

resize(s, opt, mbSizeArg, priv, va, ca) ==
  LET mbSize == IF mbSizeArg = 0 THEN s.mbSize_last_used ELSE mbSizeArg
  IN  IF mbSize = 0 THEN s
      ELSE LET s1 == Try_Get_LockMemory_Privileges(
                       [s EXCEPT !.mbSize_last_used = mbSize], opt, priv)
               newClusterCount == NewClusterCount(mbSize)
           IN  IF ResizeIsNoOp(s1, newClusterCount) THEN s1
               ELSE Reallocate(s1, newClusterCount, va, ca)

(***************************************************************************)
(* probe(), TTEntry::save(), hashfull()                                    *)
(***************************************************************************)
\* Faulty variant of Refresh: the addition saturates at 255
Refresh_Saturating(e) == [e EXCEPT !.genBound8 = IF @ + 4 > 255 THEN 255 ELSE @ + 4]

\* The refresh of probe(): an 8-bit addition
Refresh(e) == [e EXCEPT !.genBound8 = (e.genBound8 + 4) % 256]

\* Faulty variant of NeedsRefresh: the slot is not tested for being occupied
NeedsRefresh_AlsoEmpty(e, gen) == BitAnd(e.genBound8, 252) # gen

NeedsRefresh(e, gen) == BitAnd(e.genBound8, 252) # gen /\ e.key16 # 0

\* Faulty variant of AgeTerm: the offset is the modulus alone
AgeTerm_Offset256(gen, genBound8) == BitAnd(256 + gen - genBound8, 252)

\* (259 + generation8 - genBound8) & 0xFC
AgeTerm(gen, genBound8) == BitAnd(259 + gen - genBound8, 252)

\* depth minus 8 times the relative age
ReplaceValue(e, gen) == e.depth8 - AgeTerm(gen, e.genBound8) * 2

\* Faulty variant of ReplaceScan: of two slots of equal value the later wins
RECURSIVE ReplaceScan_LaterOnTie(_, _, _, _, _)
ReplaceScan_LaterOnTie(t, c, gen, i, replace) ==
  IF i >= ClusterSize THEN replace
  ELSE ReplaceScan_LaterOnTie(t, c, gen, i + 1,
         IF ReplaceValue(EntryAt(t, c, replace), gen)
              >= ReplaceValue(EntryAt(t, c, i), gen)
         THEN i ELSE replace)

\* The replacement loop of probe(): i runs from 1, replace starts at 0
RECURSIVE ReplaceScan(_, _, _, _, _)
ReplaceScan(t, c, gen, i, replace) ==
  IF i >= ClusterSize THEN replace
  ELSE ReplaceScan(t, c, gen, i + 1,
         IF ReplaceValue(EntryAt(t, c, replace), gen)
              > ReplaceValue(EntryAt(t, c, i), gen)
         THEN i ELSE replace)

\* The first loop of probe(), from slot i on
RECURSIVE ProbeScan(_, _, _, _, _)
ProbeScan(t, c, gen, key16, i) ==
  IF i >= ClusterSize
  THEN [found |-> FALSE, c |-> c, i |-> ReplaceScan(t, c, gen, 1, 0),
        table |-> t]
  ELSE LET e == EntryAt(t, c, i)
       IN  IF e.key16 = 0 \/ e.key16 = key16
           THEN [found |-> e.key16 # 0, c |-> c, i |-> i,
                 table |-> IF NeedsRefresh(e, gen)
                           THEN WriteEntry(t, c, i, Refresh(e)) ELSE t]
           ELSE ProbeScan(t, c, gen, key16, i + 1)

\* probe(key) on image t of count clusters: found, the slot, the image after
probe(t, count, gen, key) ==
  ProbeScan(t, first_entry(key, count), gen, Key16(key), 0)

\* TTEntry::save(): the slot is overwritten with the key and the values
save(e, key, v, b, d, m, ev, g) ==
  [key16 |-> Key16(key), move16 |-> m, value16 |-> v, eval16 |-> ev,
   genBound8 |-> g + b, depth8 |-> d]

\* What the search stores: value, bound, depth, move, eval
StoreInputs ==
  { [v |-> 30, b |-> 1, d |-> 4, m |-> 77, ev |-> 12],
    [v |-> 250, b |-> 3, d |-> 20, m |-> 0, ev |-> 9] }

NoInput == [v |-> 0, b |-> 0, d |-> 0, m |-> 0, ev |-> 0]

\* One slot's contribution to hashfull()
CountsAsFull(e, gen) == BitAnd(e.genBound8, 252) = gen

hashfull(t, gen) ==
  Cardinality({p \in (0 .. (1000 \div ClusterSize) - 1) \X (0 .. ClusterSize - 1) :
                 CountsAsFull(EntryAt(t, p[1], p[2]), gen)})


(***************************************************************************)
(* The hash file and the bookkeeping of the last operation                 *)
(***************************************************************************)
\* size is -1 while the file cannot be opened (tellg() of a failed stream)
NoFile == [size |-> -1, data |-> EmptyTable, by |-> "none"]

\* Integer division of C++ (truncation towards zero)
CDiv(a, b) == IF a >= 0 THEN a \div b ELSE -((-a) \div b)

Min(a, b) == IF a <= b THEN a ELSE b
Max(a, b) == IF a >= b THEN a ELSE b

OpRec ==
  [op |-> "init", afterClear |-> FALSE, wiped |-> FALSE, key |-> NoKey, found |-> FALSE,
   c |-> 0, i |-> 0, changed |-> FALSE, result |-> 0, mb |-> 0,
   same |-> FALSE, realloc |-> FALSE, inp |-> NoInput, outcome |-> "none",
   calls |-> << >>]

Op(name) == [OpRec EXCEPT !.op = name]

\* The table is usable: a resize() has succeeded and the process runs
Sized == mem # NULL /\ ~exited

Install(s) ==
  /\ use_large_pages'  = s.use_large_pages
  /\ got_privileges'   = s.got_privileges
  /\ clusterCount'     = s.clusterCount
  /\ mem'              = s.mem
  /\ table'            = s.table
  /\ large_pages_used' = s.large_pages_used
  /\ mbSize_last_used' = s.mbSize_last_used
  /\ exited'           = s.exited

(***************************************************************************)
(* Initial state: the zero-initialised global TT and the two globals       *)
(***************************************************************************)
TTInit ==
  /\ optLargePages = FALSE
  /\ use_large_pages = -1
  /\ got_privileges = -1
  /\ clusterCount = 0
  /\ mem = NULL
  /\ table = EmptyTable
  /\ generation8 = 0
  /\ large_pages_used = FALSE
  /\ mbSize_last_used = 0
  /\ exited = FALSE
  /\ hashfile = NoFile
  /\ ttOp = OpRec

(***************************************************************************)
(* Actions of the transposition table                                      *)
(***************************************************************************)
\* The user sets the "Large Pages" option
SetLargePages(b) ==
  /\ ~exited
  /\ optLargePages # b
  /\ optLargePages' = b
  /\ ttOp' = Op("setoption")
  /\ UNCHANGED <<use_large_pages, got_privileges, clusterCount, mem, table,
                 generation8, large_pages_used, mbSize_last_used, exited, hashfile>>

Resize(mbSize, priv, va, ca) ==
  /\ ~exited
  /\ LET s == resize(Machine, optLargePages, mbSize, priv, va, ca)
     IN  /\ Install(s)
         /\ ttOp' = [Op("resize") EXCEPT
                       !.mb      = s.mbSize_last_used,
                       !.same    = /\ ttOp.op = "resize"
                                   /\ ttOp.mb = s.mbSize_last_used
                                   /\ s.mbSize_last_used # 0,
                       !.realloc = s.mem # mem,
                       !.calls   = s.calls,
                       !.changed = s.table # table]
  /\ UNCHANGED <<optLargePages, generation8, hashfile>>

Clear ==
  /\ Sized
  /\ table' = EmptyTable
  /\ ttOp' = [Op("clear") EXCEPT !.changed = table # EmptyTable,
                                 !.wiped = table # EmptyTable]
  /\ UNCHANGED <<optLargePages, use_large_pages, got_privileges, clusterCount,
                 mem, generation8, large_pages_used, mbSize_last_used,
                 exited, hashfile>>

\* new_search(): the generation advances by one step of the packed byte;
\* max bounds the searches of a behaviour
NewSearchUpTo(max) ==
  /\ Sized
  /\ generation8 \div 4 < max
  /\ generation8' = (generation8 + 4) % 256
  /\ ttOp' = Op("new_search")
  /\ UNCHANGED <<optLargePages, use_large_pages, got_privileges, clusterCount,
                 mem, table, large_pages_used, mbSize_last_used, exited, hashfile>>

NewSearch == NewSearchUpTo(MaxSearches)

Probe(key) ==
  /\ Sized
  /\ LET r == probe(table, clusterCount, generation8, key)
     IN  /\ table' = r.table
         /\ ttOp' = [Op("probe") EXCEPT !.afterClear = (ttOp.op = "clear"),
                       !.wiped = (ttOp.op = "clear" /\ ttOp.wiped),
                       !.key = key, !.found = r.found,
                       !.c = r.c, !.i = r.i, !.changed = r.table # table]
  /\ UNCHANGED <<optLargePages, use_large_pages, got_privileges, clusterCount,
                 mem, generation8, large_pages_used, mbSize_last_used,
                 exited, hashfile>>

\* tte->save(...) into the slot the preceding probe() of that key returned
Store(inp) ==
  /\ Sized
  /\ ttOp.op = "probe"
  /\ table' = WriteEntry(table, ttOp.c, ttOp.i,
                save(EntryAt(table, ttOp.c, ttOp.i), ttOp.key,
                     inp.v, inp.b, inp.d, inp.m, inp.ev, generation8))
  /\ Cardinality(DOMAIN table') <= MaxEntries
  /\ ttOp' = [Op("store") EXCEPT !.key = ttOp.key, !.c = ttOp.c,
                !.i = ttOp.i, !.inp = inp]
  /\ UNCHANGED <<optLargePages, use_large_pages, got_privileges, clusterCount,
                 mem, generation8, large_pages_used, mbSize_last_used,
                 exited, hashfile>>

Hashfull ==
  /\ Sized
  /\ ttOp' = [Op("hashfull") EXCEPT !.afterClear = (ttOp.op = "clear"),
                !.result = hashfull(table, generation8)]
  /\ UNCHANGED <<optLargePages, use_large_pages, got_privileges, clusterCount,
                 mem, table, generation8, large_pages_used, mbSize_last_used,
                 exited, hashfile>>

\* What save() leaves in the file. outcome: "ok", the stream did not open
\* ("openfail"), or the write failed after the file was truncated
\* ("writefail")
SavedFile(outcome) ==
  CASE outcome = "ok" ->
         [size |-> clusterCount * ClusterBytes, data |-> table, by |-> "save"]
    [] outcome = "writefail" ->
         [size |-> 0, data |-> EmptyTable, by |-> "partial"]
    [] OTHER -> hashfile

\* Faulty variant of SaveReturn: the state of the stream is not looked at
SaveReturn_OpenedIsEnough(outcome) == outcome # "openfail"

\* What save() returns: b_stream.good() after the write when the stream
\* opened, false when it did not
SaveReturn(outcome) ==
  IF outcome # "openfail" THEN outcome # "writefail" ELSE FALSE

Save(outcome) ==
  /\ Sized
  /\ hashfile' = SavedFile(outcome)
  /\ ttOp' = [Op("save") EXCEPT !.found = SaveReturn(outcome),
                                !.outcome = outcome]
  /\ UNCHANGED <<optLargePages, use_large_pages, got_privileges, clusterCount,
                 mem, table, generation8, large_pages_used, mbSize_last_used,
                 exited>>

\* Faulty variant of LoadMbSize: the table keeps the size it had
LoadMbSize_LastUsed(size) == 0

\* The megabytes load() passes to resize()
LoadMbSize(size) == CDiv(CDiv(size, 1024), 1024)

\* The clusters file.read() fills: the stream delivers what the file holds
LoadReadClusters(count, size) ==
  Min(count * ClusterBytes, Max(size, 0)) \div ClusterBytes

load(s, opt, file, priv, va, ca) ==
  LET s1 == resize(s, opt, LoadMbSize(file.size), priv, va, ca)
  IN  IF s1.exited THEN s1
      ELSE [s1 EXCEPT !.table =
              Splice(file.data, LoadReadClusters(s1.clusterCount, file.size),
                     s1.table)]

Load(priv, va, ca) ==
  /\ ~exited
  /\ LET s == load(Machine, optLargePages, hashfile, priv, va, ca)
     IN  /\ Install(s)
         /\ ttOp' = [Op("load") EXCEPT
                       !.mb      = s.mbSize_last_used,
                       !.realloc = s.mem # mem,
                       !.calls   = s.calls,
                       !.changed = s.table # table]
  /\ UNCHANGED <<optLargePages, generation8, hashfile>>

\* Somebody else puts a file of `size` zero bytes under the hash file's
\* name, or removes the file (size -1)
ForeignSizes == {-1, 5 * ClusterBytes, 3 * 1024 * 1024}

ReplaceFile(size) ==
  /\ ~exited
  /\ hashfile' = [size |-> size, data |-> EmptyTable,
                  by |-> IF size < 0 THEN "none" ELSE "foreign"]
  /\ hashfile' # hashfile
  /\ ttOp' = Op("replacefile")
  /\ UNCHANGED <<optLargePages, use_large_pages, got_privileges, clusterCount,
                 mem, table, generation8, large_pages_used, mbSize_last_used,
                 exited>>

\* A hash file that an earlier session of the engine saved from a 1 MB table
\* is put under the hash file's name.  Its slots were written over many
\* searches: generations 248 and 252 (the bytes before the counter wraps)
\* and 0, depths 4 and 20, where depth 20 two searches back is worth depth 4
\* now;
\* slot i of cluster 0 holds key16 i + 2; slots fill from the front.
SessionEntry(k, g, d) ==
  [key16 |-> k, move16 |-> 77, value16 |-> 30, eval16 |-> 12,
   genBound8 |-> g + (IF d = 4 THEN 1 ELSE 3), depth8 |-> d]

SessionSlots == {<<0, 4>>, <<252, 4>>, <<248, 20>>, <<252, 20>>}

SlotEntries(i) == {SessionEntry(i + 2, gd[1], gd[2]) : gd \in SessionSlots}

SessionImages ==
  UNION { {t \in [{<<0, i>> : i \in 0 .. n - 1} -> UNION {SlotEntries(i) : i \in 0 .. n - 1}] :
             \A i \in 0 .. n - 1 : t[<<0, i>>] \in SlotEntries(i)} :
          n \in 0 .. ClusterSize }

RestoreFile(img) ==
  /\ ~exited
  /\ hashfile = NoFile
  /\ hashfile' = [size |-> 1024 * 1024, data |-> img, by |-> "session"]
  /\ ttOp' = Op("restorefile")
  /\ UNCHANGED <<optLargePages, use_large_pages, got_privileges, clusterCount,
                 mem, table, generation8, large_pages_used, mbSize_last_used,
                 exited>>

\* The keys probed in a restored table: all of cluster 0, key16 1 matches no
\* slot of a session image
SessionKeys == {[hi |-> h, lo |-> 0] : h \in 1 .. ClusterSize + 1}

\* The process ends and the engine is started again: the globals are
\* constructed anew, the hash file stays
Restart ==
  /\ ttOp.op # "init"
  /\ optLargePages' = FALSE
  /\ use_large_pages' = -1
  /\ got_privileges' = -1
  /\ clusterCount' = 0
  /\ mem' = NULL
  /\ table' = EmptyTable
  /\ generation8' = 0
  /\ large_pages_used' = FALSE
  /\ mbSize_last_used' = 0
  /\ exited' = FALSE
  /\ ttOp' = OpRec
  /\ UNCHANGED hashfile

(***************************************************************************)
(* Two specifications of the table.  SpecTT: the table in use by a search  *)
(* (standard allocation).  SpecAlloc: sizing, the Large Pages option, the  *)
(* hash file and restarts, with one position to store.                     *)
(***************************************************************************)
TTNext ==
  \/ \E mb \in 0..MaxMb, ca \in BOOLEAN : Resize(mb, FALSE, FALSE, ca)
  \/ Clear
  \/ NewSearch
  \/ \E key \in Keys : Probe(key)
  \/ \E inp \in StoreInputs : Store(inp)
  \/ Hashfull

AllocKey == [hi |-> 1, lo |-> 16385]

AllocInput == CHOOSE inp \in StoreInputs : inp.b = 1

\* The answers of the operating system to the questions resize() can ask
\* in the current state: the privilege is looked up once, and only with the
\* option set; VirtualAlloc is called only with the option set
PrivAnswers ==
  IF optLargePages /\ got_privileges = -1 THEN BOOLEAN ELSE {FALSE}

VirtualAllocAnswers == IF optLargePages THEN BOOLEAN ELSE {FALSE}

AllocNext ==
  \/ \E b \in BOOLEAN : SetLargePages(b)
  \/ \E mb \in 0..MaxMb, priv \in PrivAnswers, va \in VirtualAllocAnswers,
        ca \in BOOLEAN :
       Resize(mb, priv, va, ca)
  \/ Clear
  \/ Probe(AllocKey)
  \/ Store(AllocInput)
  \/ \E outcome \in {"ok", "openfail", "writefail"} : Save(outcome)
  \/ \E priv \in PrivAnswers, va \in VirtualAllocAnswers, ca \in BOOLEAN :
       Load(priv, va, ca)
  \/ \E size \in ForeignSizes : ReplaceFile(size)
  \/ Restart

(***************************************************************************)
(* The NUMA node registry (Linux build)                                    *)
(***************************************************************************)
\* NumaNode(_nodeNumber, _cpuBitset)
NumaNode(nodeNumber, cpuBitset) ==
  [nodeNumber |-> nodeNumber, coreCount |-> 0, cmhTable |-> NULL,
   cpuBitset |-> cpuBitset]

\* What the operating system answers during discovery:
\*   avail    numa_available() # -1
\*   masks    for N = 0..numa_max_node(): whether numa_node_to_cpus(N)
\*            succeeds (ok) and the cpus it reports
\*   nCpu     the directories cpu0 .. cpu(nCpu-1) exist under
\*            /sys/devices/system/cpu
\*   smt      hardware threads per core: the thread_siblings_list of cpu i
\*            starts with i - i % smt
\*   offline  the cpus whose "online" file does not hold "1"
CpuMasks ==
  LET ends == {x \in 0..MaxCpus : x % (MaxCpus \div 2) = 0}
  IN  {a .. (b - 1) : a \in ends, b \in ends}

NodeAnswers ==
  {[ok |-> TRUE, cpus |-> m] : m \in CpuMasks} \cup {[ok |-> FALSE, cpus |-> {}]}

MaskSeqs == UNION {[1..n -> NodeAnswers] : n \in 1..MaxNodes}

OsAnswers ==
  [avail : BOOLEAN, masks : MaskSeqs, nCpu : 0..MaxCpus, smt : {1, 2},
   offline : {{}, {2}}]

\* "first get nodes": one node per N whose numa_node_to_cpus succeeded
RECURSIVE GetNodes(_, _)
GetNodes(masks, N) ==
  IF N > Len(masks) THEN << >>
  ELSE IF ~masks[N].ok THEN GetNodes(masks, N + 1)
  ELSE <<NumaNode(N - 1, masks[N].cpus)>> \o GetNodes(masks, N + 1)

\* The first node whose cpuBitset holds cpu i, from node n on (0: none)
RECURSIVE FindNode(_, _, _)
FindNode(nv, i, n) ==
  IF n > Len(nv) THEN 0
  ELSE IF i \in nv[n].cpuBitset THEN n
  ELSE FindNode(nv, i, n + 1)

\* cpu i stands for a core: its thread_siblings_list can be read and
\* starts with i itself
IsCoreRepresentative(os, i) == i < os.nCpu /\ i - (i % os.smt) = i

\* "then count cores in each node": the loop over cpu0, cpu1, ... ; r is
\* the registry so far
RECURSIVE CountCores(_, _, _)
CountCores(os, r, i) ==
  IF i > 0 /\ i >= os.nCpu THEN r                       \* break
  ELSE IF i > 0 /\ i \in os.offline THEN CountCores(os, r, i + 1)
  ELSE LET n == IF IsCoreRepresentative(os, i)
                THEN FindNode(r.nodeVector, i, 1) ELSE 0
       IN  IF n = 0 THEN CountCores(os, r, i + 1)
           ELSE CountCores(os,
                  [nodeVector |-> [r.nodeVector EXCEPT
                                     ![n].coreCount = @ + 1],
                   coreCount  |-> r.coreCount + 1],
                  i + 1)

\* Faulty variant of DummyFallback: the nodes found without cores are kept
DummyFallback_KeepNodes(r) ==
  LET r1 == IF r.coreCount = 0 THEN [r EXCEPT !.coreCount = 1] ELSE r
  IN  IF Len(r1.nodeVector) = 0
      THEN [r1 EXCEPT !.nodeVector = <<NumaNode(-1, 0 .. MaxCpus - 1)>>]
      ELSE r1

\* "create a dummy node if something went wrong"
DummyFallback(r) ==
  LET r1 == IF r.coreCount = 0
            THEN [nodeVector |-> << >>, coreCount |-> 1] ELSE r
  IN  IF Len(r1.nodeVector) = 0
      THEN [r1 EXCEPT !.nodeVector = <<NumaNode(-1, 0 .. MaxCpus - 1)>>]
      ELSE r1

\* NumaState::NumaState() up to the dummy fallback
discovered(os) ==
  LET r0 == [nodeVector |-> << >>, coreCount |-> 0]
  IN  IF os.avail
      THEN CountCores(os, [r0 EXCEPT !.nodeVector = GetNodes(os.masks, 1)], 0)
      ELSE r0

\* NumaState::NumaState()
discover(os) == DummyFallback(discovered(os))

\* Whether the operating system reported an error to the Linux discovery
QueryFailed(os) == ~os.avail \/ \E N \in 1..Len(os.masks) : ~os.masks[N].ok

(***************************************************************************)
(* The node registry on Windows.  A mask is the set of its processors, and *)
(* all processors are in processor group 0, so that the branch with        *)
(* processor groups and the branch without differ in the query they call.  *)
(***************************************************************************)
\* What the query loop is answered, call by call: the call succeeds (ok),
\* fails with ERROR_INSUFFICIENT_BUFFER (then malloc tells whether the
\* buffer could be allocated), or fails with another error
WinCall(call, malloc) == [call |-> call, malloc |-> malloc]

WinQueryAnswers ==
  { <<WinCall("insufficient", TRUE), WinCall("ok", TRUE)>>,
    <<WinCall("insufficient", TRUE), WinCall("insufficient", TRUE),
      WinCall("ok", TRUE)>>,
    <<WinCall("insufficient", FALSE)>>,
    <<WinCall("error", TRUE)>>,
    <<WinCall("insufficient", TRUE), WinCall("error", TRUE)>> }

\* The buffer of a successful query: the masks of its RelationNumaNode
\* records, and RelationProcessorCore records for nCpu processors with smt
\* hardware threads per core
WinNodeSeqs == UNION {[1..n -> CpuMasks] : n \in 0..MaxNodes}

WinAnswers ==
  [groups : BOOLEAN, query : WinQueryAnswers, nodes : WinNodeSeqs,
   nCpu : 0..MaxCpus, smt : {1, 2}]

\* while (true) { if (query) break; ... }: "ok" after the break, "malloc"
\* and "query" for the two calls of exit(EXIT_FAILURE)
RECURSIVE QueryLoop(_, _)
QueryLoop(q, k) ==
  IF q[k].call = "ok" THEN "ok"
  ELSE IF q[k].call = "insufficient"
       THEN IF q[k].malloc THEN QueryLoop(q, k + 1) ELSE "malloc"
       ELSE "query"

\* "first get nodes"
GetNodes_Win(nodes) == [n \in 1..Len(nodes) |-> NumaNode(n - 1, nodes[n])]

\* The first node whose mask intersects the core's, from node n on (0: none)
RECURSIVE FindNode_Win(_, _, _)
FindNode_Win(nv, mask, n) ==
  IF n > Len(nv) THEN 0
  ELSE IF nv[n].cpuBitset \cap mask # {} THEN n
  ELSE FindNode_Win(nv, mask, n + 1)

\* "then count cores in each node": the loop over the records; the core
\* records are those of the processors i with i % smt = 0
RECURSIVE CountCores_Win(_, _, _)
CountCores_Win(os, r, i) ==
  IF i >= os.nCpu THEN r
  ELSE LET n == IF i % os.smt = 0
                THEN FindNode_Win(r.nodeVector,
                                  i .. Min(i + os.smt, os.nCpu) - 1, 1)
                ELSE 0
       IN  IF n = 0 THEN CountCores_Win(os, r, i + 1)
           ELSE CountCores_Win(os,
                  [nodeVector |-> [r.nodeVector EXCEPT
                                     ![n].coreCount = @ + 1],
                   coreCount  |-> r.coreCount + 1],
                  i + 1)

\* NumaState::NumaState() on Windows, after a successful query and up to
\* the dummy fallback
discovered_Win(os) ==
  CountCores_Win(os, [nodeVector |-> GetNodes_Win(os.nodes), coreCount |-> 0], 0)

\* Faulty variant of SegmentWalk: the walk stops one position late, on
\* i <= 0 instead of i < 0
RECURSIVE SegmentWalk_OffByOne(_, _, _)
SegmentWalk_OffByOne(nv, i, n) ==
  IF n > Len(nv) THEN 0
  ELSE IF i - nv[n].coreCount <= 0 THEN n - 1
  ELSE SegmentWalk_OffByOne(nv, i - nv[n].coreCount, n + 1)

\* The loop of nodeForThread(); the result is the index into nodeVector,
\* counted from 0, and the fallback behind the loop is index 0
RECURSIVE SegmentWalk(_, _, _)
SegmentWalk(nv, i, n) ==
  IF n > Len(nv) THEN 0
  ELSE IF i - nv[n].coreCount < 0 THEN n - 1
  ELSE SegmentWalk(nv, i - nv[n].coreCount, n + 1)

\* Faulty variant of WalkStart: the thread index is not reduced
WalkStart_NotReduced(total, threadIdx) == threadIdx

\* int i = threadIdx % coreCount
WalkStart(total, threadIdx) == threadIdx % total

nodeForThread(nv, total, threadIdx) ==
  IF Len(nv) = 1 THEN 0 ELSE SegmentWalk(nv, WalkStart(total, threadIdx), 1)

\* Whether the loop of nodeForThread() ends without a return, so that the
\* statement behind it, "it is not expected to get here", is executed
RECURSIVE LoopFallsThrough(_, _, _)
LoopFallsThrough(nv, i, n) ==
  IF n > Len(nv) THEN TRUE
  ELSE IF i - nv[n].coreCount < 0 THEN FALSE
  ELSE LoopFallsThrough(nv, i - nv[n].coreCount, n + 1)

ReachesFallback(nv, total, threadIdx) ==
  Len(nv) # 1 /\ LoopFallsThrough(nv, WalkStart(total, threadIdx), 1)

\* failed: "query" when the operating system reported an error to the
\* discovery, "malloc" when it could not allocate; found: the cores counted
\* before the dummy fallback
\* fallback: nodeForThread() returned from behind its loop
NumaOpRec == [op |-> "none", threadIdx |-> 0, node |-> 0, failed |-> "none",
              found |-> 0, fallback |-> FALSE]

\* Before the constructor's discovery has run
NumaInit ==
  /\ nodeVector = << >>
  /\ coreCount = 0
  /\ numaOp = NumaOpRec

Discover(os) ==
  /\ numaOp.op = "none"
  /\ LET r == discover(os)
     IN  /\ nodeVector' = r.nodeVector
         /\ coreCount' = r.coreCount
  /\ numaOp' = [NumaOpRec EXCEPT !.op = "discover",
                                 !.failed = IF QueryFailed(os) THEN "query"
                                            ELSE "none",
                                 !.found = discovered(os).coreCount]

\* NumaState::NumaState() of the Windows build; "exit" when the query loop
\* called exit(EXIT_FAILURE)
Discover_Win(os) ==
  /\ numaOp.op = "none"
  /\ LET q == QueryLoop(os.query, 1)
         r == DummyFallback(discovered_Win(os))
     IN  IF q = "ok"
         THEN /\ nodeVector' = r.nodeVector
              /\ coreCount' = r.coreCount
              /\ numaOp' = [NumaOpRec EXCEPT
                              !.op = "discover",
                              !.found = discovered_Win(os).coreCount]
         ELSE /\ numaOp' = [NumaOpRec EXCEPT !.op = "exit", !.failed = q]
              /\ UNCHANGED <<nodeVector, coreCount>>

NodeForThread(threadIdx) ==
  /\ numaOp.op \notin {"none", "exit"}
  /\ numaOp' = [NumaOpRec EXCEPT
                  !.op = "nodeForThread", !.threadIdx = threadIdx,
                  !.node = nodeForThread(nodeVector, coreCount, threadIdx),
                  !.fallback = ReachesFallback(nodeVector, coreCount, threadIdx)]
  /\ UNCHANGED <<nodeVector, coreCount>>

(***************************************************************************)
(* NumaState::getCmhTable, called by the search threads.  The function     *)
(* takes no lock, so a call is three steps that other threads' steps can   *)
(* come between: the test of node->cmhTable, the allocation with the store *)
(* into node->cmhTable, and the return.  Tables are named 1, 2, ... in the *)
(* order of their allocation.                                              *)
(***************************************************************************)
MaxThreads == 2

Threads == 1..MaxThreads

CmhIdle == [pc |-> "idle", node |-> 0, mine |-> NULL, ret |-> NULL]

\* The answers of the operating system under which getCmhTable is followed:
\* all cpus online, one thread per core, and every node with cpus of its own
\* (without NUMA support the registry is the dummy node)
CmhAnswers ==
  {os \in OsAnswers :
     /\ os.nCpu = MaxCpus /\ os.smt = 1 /\ os.offline = {}
     /\ \A N \in 1..Len(os.masks) :
          /\ os.masks[N].ok /\ os.masks[N].cpus # {}
          /\ \A M \in 1..(N - 1) : os.masks[M].cpus \cap os.masks[N].cpus = {}}

\* Faulty variant of CmhTableIsNull: the table is taken to be missing always
CmhTableIsNull_Always(nv, n) == TRUE

\* node->cmhTable == nullptr
CmhTableIsNull(nv, n) == nv[n].cmhTable = NULL

\* Faulty variant of StoreCmhTable: the new table is not stored in the node
StoreCmhTable_Dropped(nv, n, p) == nv

\* node->cmhTable = new CounterMoveHistoryStats
StoreCmhTable(nv, n, p) == [nv EXCEPT ![n].cmhTable = p]

CmhInit ==
  /\ cmhHeap = 0
  /\ cmhThread = [t \in Threads |-> CmhIdle]
  /\ cmhOverlap = FALSE

\* Thread t enters getCmhTable(node n) and tests node->cmhTable; each thread
\* calls once
CmhTest(t, n) ==
  /\ numaOp.op = "discover"
  /\ cmhThread[t].pc = "idle"
  /\ n \in 1..Len(nodeVector)
  /\ cmhThread' = [cmhThread EXCEPT ![t] =
                     [CmhIdle EXCEPT !.node = n,
                                     !.pc = IF CmhTableIsNull(nodeVector, n)
                                            THEN "new" ELSE "return"]]
  /\ cmhOverlap' = (cmhOverlap \/ \E u \in Threads \ {t} :
                                     cmhThread[u].pc \in {"new", "return"})
  /\ UNCHANGED <<numaVars, cmhHeap>>

\* Thread t allocates a table and stores it in the node
CmhNew(t) ==
  /\ cmhThread[t].pc = "new"
  /\ cmhHeap' = cmhHeap + 1
  /\ nodeVector' = StoreCmhTable(nodeVector, cmhThread[t].node, cmhHeap')
  /\ cmhThread' = [cmhThread EXCEPT ![t].pc = "return", ![t].mine = cmhHeap']
  /\ UNCHANGED <<coreCount, numaOp, cmhOverlap>>

\* Thread t returns node->cmhTable.  After its own store the function may
\* read the pointer again or return the value it stored: with an unordered
\* store of another thread in between, either can be what the build does.
CmhReturn(t) ==
  /\ cmhThread[t].pc = "return"
  /\ \E p \in {nodeVector[cmhThread[t].node].cmhTable} \cup
               (IF cmhThread[t].mine = NULL THEN {} ELSE {cmhThread[t].mine}) :
       cmhThread' = [cmhThread EXCEPT ![t].pc = "done", ![t].ret = p]
  /\ UNCHANGED <<numaVars, cmhHeap, cmhOverlap>>

CmhNext ==
  \/ \E os \in CmhAnswers : Discover(os) /\ UNCHANGED cmhVars
  \/ \E t \in Threads, n \in 1..MaxNodes : CmhTest(t, n)
  \/ \E t \in Threads : CmhNew(t)
  \/ \E t \in Threads : CmhReturn(t)

NumaNext ==
  \/ \E os \in OsAnswers : Discover(os)
  \/ \E os \in WinAnswers : Discover_Win(os)
  \/ \E threadIdx \in 0..MaxThreadIdx : NodeForThread(threadIdx)

(***************************************************************************)
(* Time manager: double arithmetic                                         *)
(*                                                                         *)
(* A double d is the integer nearest to d * FP.  Every operation on        *)
(* doubles rounds to nearest, as the hardware does; int(.) truncates.      *)
(* Values reaching Limit stay there: in the code every such value is an    *)
(* argument of std::min(1.0, .) and becomes 1.0.                           *)
(***************************************************************************)
FP    == 10^7
Limit == 200 * FP

Dec(n, d) == n * (FP \div d)       \* the literal n/d, e.g. 0.018 = Dec(18, 1000)

\* x * y = q * d + r for 0 <= y < d, digit by digit of x in radix R, so that
\* no intermediate result leaves the 32-bit integers; q saturates at Limit
RECURSIVE MulDivDigits(_, _, _, _)
MulDivDigits(x, y, d, R) ==
  IF x = 0 THEN [q |-> 0, r |-> 0]
  ELSE LET h == MulDivDigits(x \div R, y, d, R)
           t == R * h.r + (x % R) * y
       IN  [q |-> IF h.q > Limit \div R THEN Limit
                  ELSE Min(Limit, R * h.q + t \div d),
            r |-> t % d]

\* x * y = q * d + r for any y >= 0
MulDivParts(x, y, d) ==
  LET whole == y \div d
      part  == MulDivDigits(x, y % d, d, Min(1024, 2^30 \div d))
  IN  IF whole > 0 /\ x > Limit \div whole
      THEN [q |-> Limit, r |-> 0]
      ELSE [q |-> IF x * whole > Limit - part.q THEN Limit ELSE x * whole + part.q,
            r |-> part.r]

\* the double x * y / d, rounded to nearest
MulDiv(x, y, d) ==
  LET p == MulDivParts(x, y, d)
  IN  Min(Limit, p.q + (IF 2 * p.r >= d THEN 1 ELSE 0))

FMul(a, b) == MulDiv(a, b, FP)     \* a * b on doubles
FDiv(a, b) == MulDiv(a, FP, b)     \* a / b on doubles

\* Faulty variant of ToInt: the product is rounded up, not truncated
ToInt_RoundedUp(n, ratio) ==
  LET p == MulDivParts(n, ratio, FP) IN IF p.r = 0 THEN p.q ELSE p.q + 1

\* int(n * ratio) for an int n and a double ratio
ToInt(n, ratio) == MulDivParts(n, ratio, FP).q

\* exp(-d*d / 465.0) for d = 0..60
GaussTable465 ==
  <<10000000,  9978518,  9914347,  9808313,  9661766,  9476563,
     9255017,  8999858,  8714172,  8401343,  8064981,  7708858,
     7336836,  6952798,  6560585,  6163927,  5766397,  5371352,
     4981898,  4600850,  4230711,  3873653,  3531508,  3205765,
     2897579,  2607779,  2336892,  2085155,  1852551,  1638831,
     1443544,  1266071,  1105651,   961414,   832405,   717614,
      615998,   526502,   448077,   379697,   320371,   269155,
      225156,   187541,   155539,   128445,   105615,    86470,
       70492,    57220,    46247,    37218,    29823,    23795,
       18904,    14954,    11778,     9237,     7213,     5609,
        4342>>

\* exp(-d*d / 1600.0) for d = 0..60
GaussTable1600 ==
  <<10000000,  9993752,  9975031,  9943908,  9900498,  9844964,
     9777512,  9698392,  9607894,  9506351,  9394131,  9271638,
     9139312,  8997620,  8847059,  8688151,  8521438,  8347483,
     8166865,  7980173,  7788008,  7590975,  7389685,  7184745,
     6976763,  6766338,  6554063,  6340516,  6126264,  5911858,
     5697828,  5484687,  5272924,  5063005,  4855369,  4650432,
     4448581,  4250175,  4055545,  3864994,  3678794,  3497191,
     3320399,  3148607,  2981973,  2820630,  2664683,  2514214,
     2369278,  2229907,  2096114,  1967886,  1845195,  1727992,
     1616212,  1509774,  1408584,  1312535,  1221507,  1135372,
     1053992>>

\* gauss(x, a, b) = exp(-(x - a) * (x - a) / b), for the two (a, b) of the
\* code and |x - a| <= 60
gauss(x, a, b) ==
  LET d == IF x >= a THEN x - a ELSE a - x
  IN  IF b = 465 THEN GaussTable465[d + 1] ELSE GaussTable1600[d + 1]

\* LogSteps[k] is the least pScore with int(16.4 * log(1.0 + pScore / 87.5)) >= k
LogSteps ==
  <<       6,       12,       18,       25,       32,       39,
          47,       56,       64,       74,       84,       95,
         106,      118,      131,      145,      160,      175,
         192,      209,      228,      248,      269,      291,
         315,      340,      367,      395,      426,      458,
         492,      529,      567,      609,      652,      699,
         748,      801,      857,      916,      979,     1046,
        1117,     1193,     1273,     1359,     1450,     1546>>

\* int(16.4 * log(1.0 + abs(pScore) / 87.5)), cut at 48 (where MoveHorizon
\* has reached its floor of 1)
LogTerm(pScore) == Cardinality({k \in 1..Len(LogSteps) : LogSteps[k] <= pScore})

(***************************************************************************)
(* Time manager: remaining() and init(), src/src/timeman.cpp (by ply) and  *)
(* src/unnamed/part_001 (by score, suffix _pScore)                         *)
(***************************************************************************)
\* Faulty variant of hypMyTime: the move overhead is not subtracted
hypMyTime_NotSubtracted(myTime, moveOverhead) == Max(0, myTime)

hypMyTime(myTime, moveOverhead) == Max(0, myTime - moveOverhead)

remaining(T, myTime, myInc, moveOverhead, movesToGo, ply) ==
  LET mn == (ply + 1) \div 2
      sd == IF movesToGo # 0 THEN Dec(85, 10)
            ELSE FP + MulDiv(Dec(135, 10), mn, 500 + mn)
      TRatio ==
        IF movesToGo # 0
        THEN FMul(MulDiv(IF T = "OptimumTime" THEN Dec(9, 10) ELSE Dec(56, 10),
                         1, movesToGo),
                  IF mn <= 40 THEN gauss(movesToGo, 19, 1600) ELSE Dec(13, 10))
        ELSE FMul(IF T = "OptimumTime" THEN Dec(18, 1000) ELSE Dec(74, 1000), sd)
      incUsage == Dec(49, 1) + FMul(Dec(285, 10), gauss(mn, 20, 465))
      \* myTime = 0 divides by 0.0: the quotient is inf or NaN, and
      \* std::min(1.0, .) returns 1.0 for both
      ratio == IF myTime = 0 THEN FP
               ELSE Min(FP, FMul(TRatio,
                                 FP + MulDiv(FDiv(incUsage, sd), myInc, myTime)))
  IN  ToInt(hypMyTime(myTime, moveOverhead), ratio)

MaxRatio   == Dec(525, 100)
StealRatio == Dec(76, 1000)

remaining_pScore(T, myTime, myInc, moveOverhead, movesToGo) ==
  LET TMaxRatio   == IF T = "OptimumTime" THEN FP ELSE MaxRatio
      TStealRatio == IF T = "OptimumTime" THEN Dec(18, 1000) ELSE StealRatio
      ratio1 == Min(FP, MulDiv(TMaxRatio, myTime + myInc * (movesToGo - 1),
                               movesToGo))
      \* myTime = 0: as above
      ratio2 == IF myTime = 0 THEN FP
                ELSE Min(FP, FMul(TStealRatio, FP + MulDiv(FP, 93 * myInc, myTime)))
  IN  ToInt(hypMyTime(myTime, moveOverhead), Min(ratio1, ratio2))

MoveHorizon(pScore) == IF pScore > 0 THEN Max(1, 49 - LogTerm(pScore)) ELSE 49

MaxMTG(movestogo, pScore) ==
  IF movestogo # 0 THEN Min(movestogo, MoveHorizon(pScore)) ELSE MoveHorizon(pScore)

\* Faulty variant of NodesAsTime: the budget is computed anew on every call
NodesAsTime_Recomputed(lim, avail, npmsec) ==
  IF npmsec # 0
  THEN [limits |-> [lim EXCEPT !.time = npmsec * lim.time,
                               !.inc = lim.inc * npmsec, !.npmsec = npmsec],
        availableNodes |-> npmsec * lim.time]
  ELSE [limits |-> lim, availableNodes |-> avail]

\* the nodes-as-time block of init(): the limits and availableNodes after it
NodesAsTime(lim, avail, npmsec) ==
  IF npmsec # 0
  THEN LET a == IF avail = 0 THEN npmsec * lim.time ELSE avail
       IN  [limits |-> [lim EXCEPT !.time = a, !.inc = lim.inc * npmsec,
                                   !.npmsec = npmsec],
            availableNodes |-> a]
  ELSE [limits |-> lim, availableNodes |-> avail]

\* Faulty variant of WithPonder: half of the optimum is added
WithPonder_Half(optimum, ponder) ==
  IF ponder THEN optimum + optimum \div 2 ELSE optimum

\* if (Options["Ponder"]) optimumTime += optimumTime / 4;
WithPonder(optimum, ponder) ==
  IF ponder THEN optimum + optimum \div 4 ELSE optimum

init(lim, avail, moveOverhead, npmsec, ponder, ply) ==
  LET n == NodesAsTime(lim, avail, npmsec)
      l == n.limits
  IN  [limits |-> l, availableNodes |-> n.availableNodes,
       startTime |-> l.startTime,
       optimumTime |-> WithPonder(remaining("OptimumTime", l.time, l.inc,
                                            moveOverhead, l.movestogo, ply),
                                  ponder),
       maximumTime |-> remaining("MaxTime", l.time, l.inc, moveOverhead,
                                 l.movestogo, ply)]

init_pScore(lim, avail, moveOverhead, npmsec, ponder, pScore) ==
  LET n == NodesAsTime(lim, avail, npmsec)
      l == n.limits
      mtg == MaxMTG(l.movestogo, pScore)
  IN  [limits |-> l, availableNodes |-> n.availableNodes,
       startTime |-> l.startTime,
       optimumTime |-> WithPonder(remaining_pScore("OptimumTime", l.time, l.inc,
                                                   moveOverhead, mtg),
                                  ponder),
       maximumTime |-> remaining_pScore("MaxTime", l.time, l.inc, moveOverhead,
                                        mtg)]

(***************************************************************************)
(* Time manager: state and actions                                         *)
(***************************************************************************)
Times      == {0, 1000, 60000}       \* wtime/btime of "go", in ms
Incs       == {0, 1000}              \* winc/binc
MovesToGo  == {0, 30}                \* movestogo
Plies      == {1, 100}               \* game ply handed to init()
Scores     == {0, 100}               \* previous score handed to init()
Overheads  == {30, 2000}             \* values of "Move Overhead"
Nodestimes == {0, 2}                 \* values of "nodestime"

\* The entries of LimitsType that init() reads or writes, for the side to move
NoLimits == [time |-> 0, inc |-> 0, movestogo |-> 0, npmsec |-> 0, startTime |-> 0]

TmOpRec == [op |-> "none", by |-> "none", lim |-> NoLimits, avail |-> 0, arg |-> 0]

TMInit ==
  /\ optMoveOverhead = 30
  /\ optNodestime = 0
  /\ optPonder = FALSE
  /\ limits = NoLimits
  /\ availableNodes = 0
  /\ startTime = 0
  /\ optimumTime = 0
  /\ maximumTime = 0
  /\ tmOp = TmOpRec

\* setoption: the engine is configured before its first search
SetMoveOverhead(v) ==
  /\ tmOp.op # "init"
  /\ optMoveOverhead' = v
  /\ tmOp' = [TmOpRec EXCEPT !.op = "setoption"]
  /\ UNCHANGED <<optNodestime, optPonder, limits, availableNodes, startTime,
                 optimumTime, maximumTime>>

SetNodestime(v) ==
  /\ tmOp.op # "init"
  /\ optNodestime' = v
  /\ tmOp' = [TmOpRec EXCEPT !.op = "setoption"]
  /\ UNCHANGED <<optMoveOverhead, optPonder, limits, availableNodes, startTime,
                 optimumTime, maximumTime>>

SetPonder(b) ==
  /\ tmOp.op # "init"
  /\ optPonder' = b
  /\ tmOp' = [TmOpRec EXCEPT !.op = "setoption"]
  /\ UNCHANGED <<optMoveOverhead, optNodestime, limits, availableNodes,
                 startTime, optimumTime, maximumTime>>

\* The LimitsType that "go wtime .. winc .. movestogo .." builds, stamped
\* with the time of the command
GoLimits(time, inc, movestogo) ==
  [time |-> time, inc |-> inc, movestogo |-> movestogo, npmsec |-> 0,
   startTime |-> IF startTime = 1 THEN 2 ELSE 1]

InstallTime(lim, r, by, arg) ==
  /\ limits' = r.limits
  /\ availableNodes' = r.availableNodes
  /\ startTime' = r.startTime
  /\ optimumTime' = r.optimumTime
  /\ maximumTime' = r.maximumTime
  /\ tmOp' = [op |-> "init", by |-> by, lim |-> lim, avail |-> availableNodes,
              arg |-> arg]
  /\ UNCHANGED <<optMoveOverhead, optNodestime, optPonder>>

\* TimeManagement::init(limits, us, ply), at the start of a search
TimeInit(lim, ply) ==
  InstallTime(lim, init(lim, availableNodes, optMoveOverhead, optNodestime,
                        optPonder, ply), "ply", ply)

\* TimeManagement::init(limits, us, pScore), at the start of a search
TimeInit_pScore(lim, pScore) ==
  InstallTime(lim, init_pScore(lim, availableNodes, optMoveOverhead,
                               optNodestime, optPonder, pScore),
              "pScore", pScore)

TimeNext ==
  \/ \E v \in Overheads : SetMoveOverhead(v)
  \/ \E v \in Nodestimes : SetNodestime(v)
  \/ \E b \in BOOLEAN : SetPonder(b)
  \/ \E time \in Times, inc \in Incs, movestogo \in MovesToGo, ply \in Plies :
       TimeInit(GoLimits(time, inc, movestogo), ply)
  \/ \E time \in Times, inc \in Incs, movestogo \in MovesToGo, pScore \in Scores :
       TimeInit_pScore(GoLimits(time, inc, movestogo), pScore)

(***************************************************************************)
(* The table shared by the search threads.  probe() and TTEntry::save()    *)
(* take no lock, so a thread's probe and its later save are separate       *)
(* steps, and so are the test of genBound8 in probe() and the addition     *)
(* that refreshes it.  clear() and new_search() run between searches,      *)
(* while no thread is in the table.                                        *)
(***************************************************************************)
MaxProbes == 2    \* probes of one thread in a behaviour

SharedKeys == {[hi |-> h, lo |-> 0] : h \in 1 .. 2}

ThreadIdle == [pc |-> "idle", key |-> NoKey, c |-> 0, i |-> 0, seen |-> 0,
               n |-> 0]

SharedInit == ttThread = [t \in Threads |-> ThreadIdle]

AllIdle == \A t \in Threads : ttThread[t].pc = "idle"

\* Thread t runs the loops of probe(key) up to the test of genBound8
ThreadProbe(t, key) ==
  /\ Sized
  /\ ttThread[t].pc \in {"idle", "probed"}
  /\ ttThread[t].n < MaxProbes
  /\ LET r == probe(table, clusterCount, generation8, key)
     IN  ttThread' = [ttThread EXCEPT ![t] =
           [pc   |-> IF r.table # table THEN "refresh" ELSE "probed",
            key  |-> key, c |-> r.c, i |-> r.i,
            seen |-> EntryAt(table, r.c, r.i).genBound8,
            n    |-> ttThread[t].n + 1]]
  /\ UNCHANGED ttVars

\* tte[i].genBound8 += 4 of thread t: the byte that is incremented is the
\* one the test read or the one in memory now; with another thread's write
\* in between, either can be what the build does
ThreadRefresh(t) ==
  /\ ttThread[t].pc = "refresh"
  /\ LET c == ttThread[t].c
         i == ttThread[t].i
         e == EntryAt(table, c, i)
     IN  \E byte \in {ttThread[t].seen, e.genBound8} :
           table' = WriteEntry(table, c, i,
                      [e EXCEPT !.genBound8 =
                         Refresh([e EXCEPT !.genBound8 = byte]).genBound8])
  /\ ttThread' = [ttThread EXCEPT ![t].pc = "probed"]
  /\ UNCHANGED <<optLargePages, use_large_pages, got_privileges, clusterCount,
                 mem, generation8, large_pages_used, mbSize_last_used,
                 exited, hashfile, ttOp>>

\* tte->save(...) of thread t into the slot its probe returned
ThreadStore(t, inp) ==
  /\ ttThread[t].pc = "probed"
  /\ table' = WriteEntry(table, ttThread[t].c, ttThread[t].i,
                save(EntryAt(table, ttThread[t].c, ttThread[t].i),
                     ttThread[t].key, inp.v, inp.b, inp.d, inp.m, inp.ev,
                     generation8))
  /\ ttThread' = [ttThread EXCEPT ![t].pc = "idle"]
  /\ UNCHANGED <<optLargePages, use_large_pages, got_privileges, clusterCount,
                 mem, generation8, large_pages_used, mbSize_last_used,
                 exited, hashfile, ttOp>>

SharedNext ==
  \/ mem = NULL /\ Resize(1, FALSE, FALSE, TRUE) /\ UNCHANGED ttThread
  \/ AllIdle /\ Clear /\ UNCHANGED ttThread
  \/ AllIdle /\ NewSearch /\ UNCHANGED ttThread
  \/ \E t \in Threads, key \in SharedKeys : ThreadProbe(t, key)
  \/ \E t \in Threads : ThreadRefresh(t)
  \/ \E t \in Threads : ThreadStore(t, AllocInput)

Init == TTInit /\ SharedInit /\ NumaInit /\ CmhInit /\ TMInit

SpecTT == Init /\ [][TTNext /\ UNCHANGED <<ttThread, numaVars, cmhVars, tmVars>>]_vars

\* The table over several searches: one size, and up to MaxStale searches
MaxStale == 3

StaleNext ==
  \/ \E ca \in BOOLEAN : Resize(1, FALSE, FALSE, ca)
  \/ NewSearchUpTo(MaxStale)
  \/ \E key \in Keys : Probe(key)
  \/ \E inp \in StoreInputs : Store(inp)

SpecStale == Init /\ [][StaleNext /\ UNCHANGED <<ttThread, numaVars, cmhVars, tmVars>>]_vars

\* The table restored from a hash file and probed over later searches
ClusterNext ==
  \/ \E img \in SessionImages : RestoreFile(img)
  \/ Load(FALSE, FALSE, TRUE)
  \/ NewSearch
  \/ \E key \in SessionKeys : Probe(key)

SpecCluster ==
  Init /\ [][ClusterNext /\ UNCHANGED <<ttThread, numaVars, cmhVars, tmVars>>]_vars

\* The age term of the replacement value on every generation and every
\* packed byte: a 1 MB table in any of its 64 generations, whose first slot
\* holds any byte, and the term evaluated for that slot
AgeInit ==
  /\ optLargePages = FALSE
  /\ use_large_pages = 0
  /\ got_privileges = -1
  /\ clusterCount = NewClusterCount(1)
  /\ mem = 1
  /\ \E b \in 0 .. 255 :
       table = WriteEntry(EmptyTable, 0, 0,
                          [SessionEntry(2, 0, 4) EXCEPT !.genBound8 = b])
  /\ generation8 \in {4 * k : k \in 0 .. 63}
  /\ large_pages_used = FALSE
  /\ mbSize_last_used = 1
  /\ exited = FALSE
  /\ hashfile = NoFile
  /\ ttOp = OpRec
  /\ SharedInit /\ NumaInit /\ CmhInit /\ TMInit

EvalAge ==
  /\ ttOp.op = "init"
  /\ ttOp' = [Op("age") EXCEPT
                !.result = AgeTerm(generation8, EntryAt(table, 0, 0).genBound8)]
  /\ UNCHANGED <<optLargePages, use_large_pages, got_privileges, clusterCount,
                 mem, table, generation8, large_pages_used, mbSize_last_used,
                 exited, hashfile>>

SpecAge == AgeInit /\ [][EvalAge /\ UNCHANGED <<ttThread, numaVars, cmhVars, tmVars>>]_vars

SpecShared == Init /\ [][SharedNext /\ UNCHANGED <<numaVars, cmhVars, tmVars>>]_vars

SpecAlloc ==
  Init /\ [][AllocNext /\ UNCHANGED <<ttThread, numaVars, cmhVars, tmVars>>]_vars

SpecNuma == Init /\ [][NumaNext /\ UNCHANGED <<ttVars, ttThread, cmhVars, tmVars>>]_vars

SpecCmh == Init /\ [][CmhNext /\ UNCHANGED <<ttVars, ttThread, tmVars>>]_vars

SpecTime == Init /\ [][TimeNext /\ UNCHANGED <<ttVars, ttThread, numaVars, cmhVars>>]_vars


(***************************************************************************)
(* Claims about the transposition table                                    *)
(***************************************************************************)
\* A power of two greater than zero
IsPowerOfTwo(n) == \E k \in 0..30 : n = 2^k

\* C1: a probe(key) issued immediately after a store of that key, in the
\* same generation, returns found = TRUE and a slot holding exactly the
\* stored move, score, eval, depth and bound, for every key, those whose
\* top 16 bits are zero included.
C1_ProbeAfterStoreFinds ==
  ttOp.op = "store" =>
    LET r == probe(table, clusterCount, generation8, ttOp.key)
        e == EntryAt(r.table, r.c, r.i)
    IN  /\ r.found
        /\ e.move16 = ttOp.inp.m
        /\ e.value16 = ttOp.inp.v
        /\ e.eval16 = ttOp.inp.ev
        /\ e.depth8 = ttOp.inp.d
        /\ BitAnd(e.genBound8, 3) = ttOp.inp.b

\* C2: after clear() on a sized table every probe(key) returns found =
\* FALSE and a slot whose key16 is zero, and modifies no slot.  Stated for
\* every key in the state clear() leaves, and for the probe() that ran next.
C2_ProbeAfterClearMisses ==
  /\ ttOp.op = "clear" =>
       \A key \in Keys :
         LET r == probe(table, clusterCount, generation8, key)
         IN  /\ ~r.found
             /\ EntryAt(r.table, r.c, r.i).key16 = 0
             /\ r.table = table
  /\ (ttOp.op = "probe" /\ ttOp.afterClear) =>
       /\ ~ttOp.found
       /\ EntryAt(table, ttOp.c, ttOp.i).key16 = 0
       /\ ~ttOp.changed
       /\ table = EmptyTable

\* a probe ran right after a clear() that wiped stored entries, in a
\* generation other than the one of the zeroed bytes
C2_Witness ==
  /\ ttOp.op = "probe" /\ ttOp.afterClear /\ ttOp.wiped
  /\ generation8 # 0
  /\ ttOp.key.hi # 0

\* C3: hashfull() returns 0 immediately after clear(), whatever the
\* generation counter is at that moment, generation 0 included.
C3_HashfullZeroAfterClear ==
  (ttOp.op = "hashfull" /\ ttOp.afterClear) => ttOp.result = 0

\* C4: once resize() has been given a size, the cluster count is the
\* largest power of two not exceeding (megabytes * 1024 * 1024) /
\* sizeof(Cluster), in every state that resize, clear and load can lead to.
C4_ClusterCountPowerOfTwo ==
  mbSize_last_used >= 1 =>
    LET q == (mbSize_last_used * 1024 * 1024) \div ClusterBytes
    IN  /\ IsPowerOfTwo(clusterCount)
        /\ clusterCount <= q
        /\ q < 2 * clusterCount

\* resize(3) has rounded 49152 clusters down to 32768
C4_Witness ==
  /\ ttOp.op = "resize" /\ ttOp.mb = 3 /\ ~exited
  /\ clusterCount = 32768

\* C5: a resize(N) that directly follows a resize(N), with the Large Pages
\* option left as it was, reallocates nothing: the address and the slots
\* are unchanged, whatever the outcome of the first call was.
C5_SecondResizeKeepsAllocation ==
  (ttOp.op = "resize" /\ ttOp.same) => (~ttOp.realloc /\ ~ttOp.changed)

\* C6: after load() of a file written by save(), the cluster count is the
\* file length divided by sizeof(Cluster) and every cluster equals the
\* saved one, whatever size the loading table had before.
C6_LoadReproducesSaved ==
  (ttOp.op = "load" /\ hashfile.by = "save" /\ ~exited) =>
    /\ clusterCount * ClusterBytes = hashfile.size
    /\ table = hashfile.data

\* a saved table with a stored entry was loaded into a table that had to
\* be allocated for it
C6_Witness ==
  /\ ttOp.op = "load" /\ hashfile.by = "save" /\ ~exited
  /\ ttOp.realloc
  /\ hashfile.data # EmptyTable
  /\ table = hashfile.data


(***************************************************************************)
(* Claims about the node registry                                          *)
(***************************************************************************)
\* The sum of the core counts of the first n nodes
RECURSIVE CoresBefore(_, _)
CoresBefore(nv, n) ==
  IF n = 0 THEN 0 ELSE CoresBefore(nv, n - 1) + nv[n].coreCount

CoreCounts == [n \in 1..Len(nodeVector) |-> nodeVector[n].coreCount]

\* C7: nodeForThread(t) returns the node whose segment of core-count
\* length, in registry order, holds the position t mod coreCount; the
\* indices 0..coreCount-1 give each node as many indices as it has cores
\* (the dummy node counting as the whole machine); a single-node registry
\* returns its node for every t; with core counts {4, 4} the indices 0..3
\* map to node 0, 4..7 to node 1 and 9 to node 0.
C7_NodeForThreadSegments ==
  /\ numaOp.op = "nodeForThread" =>
       LET n == numaOp.node + 1
           pos == numaOp.threadIdx % coreCount
       IN  /\ n \in 1..Len(nodeVector)
           /\ Len(nodeVector) = 1 => n = 1
           /\ Len(nodeVector) > 1 =>
                /\ CoresBefore(nodeVector, n - 1) <= pos
                /\ pos < CoresBefore(nodeVector, n)
  /\ numaOp.op # "none" =>
       \A n \in 1..Len(nodeVector) :
         Cardinality({t \in 0..coreCount - 1 :
                        nodeForThread(nodeVector, coreCount, t) = n - 1})
           = IF nodeVector[n].nodeNumber = -1 THEN coreCount
             ELSE nodeVector[n].coreCount
  /\ (numaOp.op = "nodeForThread" /\ CoreCounts = <<4, 4>>) =>
       numaOp.node = CASE numaOp.threadIdx \in 0..3 -> 0
                       [] numaOp.threadIdx \in 4..7 -> 1
                       [] numaOp.threadIdx = 8 -> 0
                       [] numaOp.threadIdx = 9 -> 0
                       [] OTHER -> numaOp.node

\* thread index 9 was mapped on a registry with core counts {4, 4}
C7_Witness ==
  /\ numaOp.op = "nodeForThread"
  /\ CoreCounts = <<4, 4>>
  /\ numaOp.threadIdx = 9
  /\ numaOp.node = 0

(***************************************************************************)
(* Claims about the time manager                                           *)
(***************************************************************************)

\* C8: after init, maximumTime >= optimumTime, whether Ponder is off or on
C8_MaximumDominatesOptimum ==
  tmOp.op = "init" => maximumTime >= optimumTime

\* What init yields for the inputs of the last call with Ponder set to `ponder`
SameInputs(ponder) ==
  IF tmOp.by = "ply"
  THEN init(tmOp.lim, tmOp.avail, optMoveOverhead, optNodestime, ponder, tmOp.arg)
  ELSE init_pScore(tmOp.lim, tmOp.avail, optMoveOverhead, optNodestime, ponder,
                   tmOp.arg)

\* C9 as stated: with Ponder on, four times the optimum equals five times
\* the optimum of the same inputs with Ponder off, and the maximum is the same
C9_PonderExactlyQuarter ==
  tmOp.op = "init" /\ optPonder =>
    /\ optimumTime * 4 = SameInputs(FALSE).optimumTime * 5
    /\ maximumTime = SameInputs(FALSE).maximumTime

\* C9, amended: with Ponder on, the optimum is the optimum of the same inputs
\* with Ponder off plus a quarter of it rounded down, so it falls short of
\* 25% by less than one unit; the maximum is the same
C9_PonderQuarterRoundedDown ==
  tmOp.op = "init" /\ optPonder =>
    LET np == SameInputs(FALSE)
    IN  /\ optimumTime = np.optimumTime + np.optimumTime \div 4
        /\ optimumTime * 4 <= np.optimumTime * 5
        /\ np.optimumTime * 5 < optimumTime * 4 + 4
        /\ maximumTime = np.maximumTime

C9_Witness ==
  /\ tmOp.op = "init"
  /\ optPonder
  /\ SameInputs(FALSE).optimumTime % 4 # 0
  /\ optimumTime > SameInputs(FALSE).optimumTime

C11_NodeBudgetFixedOnce ==
  tmOp.op = "init" =>
    IF optNodestime # 0
    THEN /\ availableNodes = IF tmOp.avail = 0
                             THEN optNodestime * tmOp.lim.time
                             ELSE tmOp.avail
         /\ limits = [tmOp.lim EXCEPT !.time = availableNodes,
                                      !.inc = tmOp.lim.inc * optNodestime,
                                      !.npmsec = optNodestime]
    ELSE /\ availableNodes = tmOp.avail
         /\ limits = tmOp.lim

\* a later init of the game was given a clock time that does not match the
\* stored budget
C11_Witness ==
  /\ tmOp.op = "init"
  /\ optNodestime # 0
  /\ tmOp.avail # 0
  /\ tmOp.avail # optNodestime * tmOp.lim.time
  /\ tmOp.lim.inc # 0
  /\ limits.time = tmOp.avail
  /\ availableNodes = tmOp.avail

\* The registry is the single dummy node
IsDummyRegistry == Len(nodeVector) = 1 /\ nodeVector[1].nodeNumber = -1

\* The sum of the registry's nodes' core counts
RECURSIVE SumCores(_, _)
SumCores(nv, n) ==
  IF n > Len(nv) THEN 0 ELSE nv[n].coreCount + SumCores(nv, n + 1)

\* C12: when an operating-system topology query reports an error (a failed
\* malloc apart), discovery does not terminate the process, and it ends with
\* the registry holding the single dummy node.
C12_QueryErrorEndsInDummy ==
  numaOp.failed = "query" => numaOp.op = "discover" /\ IsDummyRegistry

\* C13: after discovery the node list is non-empty, the total core count is
\* at least 1 and equals max(1, sum of the nodes' core counts), and when no
\* core was discovered the registry is exactly one node with id -1.
C13_RegistryTotals ==
  numaOp.op \in {"discover", "nodeForThread"} =>
    /\ Len(nodeVector) >= 1
    /\ coreCount >= 1
    /\ coreCount = Max(1, SumCores(nodeVector, 1))
    /\ (numaOp.op = "discover" /\ numaOp.found = 0 => IsDummyRegistry)

C13_Witness ==
  /\ numaOp.op = "discover" /\ numaOp.found = 0 /\ numaOp.failed = "none"
  /\ IsDummyRegistry /\ coreCount = 1

\* C14: a node of the registry has a core count above 0 unless it is the
\* singleton dummy node; a registry of two or more nodes has no node with
\* core count 0.
C14_NoCorelessNode ==
  numaOp.op \in {"discover", "nodeForThread"} =>
    \A n \in 1..Len(nodeVector) :
      nodeVector[n].coreCount > 0 \/ IsDummyRegistry

\* The nodes of the registry that have a table
NodesWithTable ==
  {n \in 1..Len(nodeVector) : nodeVector[n].cmhTable # NULL}

\* C15: when the calls of getCmhTable come one after the other, a node's
\* table is allocated at most once, a call returns the table of its node, a
\* table once set stays the same in later calls, and a call for a node
\* changes no other node's pointer.
C15_SerializedCallsAllocateOnce ==
  /\ [](~cmhOverlap =>
         /\ cmhHeap = Cardinality(NodesWithTable)
         /\ \A t \in Threads :
              cmhThread[t].pc = "done" =>
                /\ cmhThread[t].ret # NULL
                /\ cmhThread[t].ret = nodeVector[cmhThread[t].node].cmhTable)
  /\ [][~cmhOverlap' =>
         \A n \in 1..Len(nodeVector) :
           nodeVector'[n].cmhTable # nodeVector[n].cmhTable =>
             /\ nodeVector[n].cmhTable = NULL
             /\ \E t \in Threads :
                  /\ cmhThread[t].pc = "new" /\ cmhThread[t].node = n
                  /\ cmhThread'[t].pc = "return"]_vars

C15_Witness ==
  /\ ~cmhOverlap /\ cmhHeap = 1 /\ Len(nodeVector) >= 2
  /\ \A t \in Threads : cmhThread[t].pc = "done" /\ cmhThread[t].ret = 1
  /\ cmhThread[1].mine = NULL /\ cmhThread[2].mine = 1
  /\ \E n \in 1..Len(nodeVector) : nodeVector[n].cmhTable = NULL

\* C16: two finished calls for one node hold different tables, or a table
\* is allocated that no node points to, only when a call began during
\* another one; when calls overlap this does happen: both see no table, both
\* allocate, and one of the two tables is no longer referenced.
C16_RaceOnlyWhenCallsOverlap ==
  (\/ cmhHeap # Cardinality(NodesWithTable)
   \/ \E t, u \in Threads :
        /\ cmhThread[t].pc = "done" /\ cmhThread[u].pc = "done"
        /\ cmhThread[t].node = cmhThread[u].node
        /\ cmhThread[t].ret # cmhThread[u].ret)
  => cmhOverlap

C16_Witness ==
  /\ cmhThread[1].pc = "done" /\ cmhThread[2].pc = "done"
  /\ cmhThread[1].node = cmhThread[2].node
  /\ cmhThread[1].mine # NULL /\ cmhThread[2].mine # NULL
  /\ cmhThread[1].ret # cmhThread[2].ret
  /\ cmhHeap = 2 /\ Cardinality(NodesWithTable) = 1
  /\ \E p \in {cmhThread[1].ret, cmhThread[2].ret} :
       \A n \in 1..Len(nodeVector) : nodeVector[n].cmhTable # p

\* C17: save() returns false when the file could not be opened or the write
\* did not complete, true otherwise, and leaves the allocation, the cluster
\* count, every slot and the generation as they were.
C17_SaveReportsAndKeepsTable ==
  /\ [](ttOp.op = "save" =>
         /\ ttOp.outcome \in {"openfail", "writefail"} => ~ttOp.found
         /\ ttOp.outcome = "ok" => ttOp.found)
  /\ [][ttOp'.op = "save" =>
         UNCHANGED <<mem, clusterCount, table, generation8>>]_vars

C17_Witness ==
  /\ ttOp.op = "save" /\ ttOp.outcome = "writefail" /\ ~ttOp.found
  /\ table # EmptyTable /\ hashfile.by = "partial"

\* C18: a load() that fails, because the file is missing or shorter than
\* the table, leaves the size of the table and the contents of its slots as
\* they were before the call.  (load() returns nothing, so the result the
\* claim speaks of is not part of any state.)
C18_FailedLoadKeepsTable ==
  [][ttOp'.op = "load" /\ hashfile.size < clusterCount * ClusterBytes =>
       UNCHANGED <<clusterCount, table>>]_vars

\* C19: sudden death with 60000 ms on the clock, no increment, a move
\* overhead of 30 ms, ply 1 (score 0 in the variant by score), Ponder off
\* and nodestime 0: init gives the same two durations every time, and
\* 0 < optimumTime < maximumTime < 60000.
C19_SuddenDeathScenario ==
  (/\ tmOp.op = "init"
   /\ tmOp.lim.time = 60000 /\ tmOp.lim.inc = 0 /\ tmOp.lim.movestogo = 0
   /\ optMoveOverhead = 30 /\ ~optPonder /\ optNodestime = 0
   /\ tmOp.arg = IF tmOp.by = "ply" THEN 1 ELSE 0)
  => /\ 0 < optimumTime
     /\ optimumTime < maximumTime
     /\ maximumTime < 60000
     /\ optimumTime = IF tmOp.by = "ply" THEN 1108 ELSE 1079
     /\ maximumTime = 4557

C19_Witness ==
  /\ tmOp.op = "init" /\ tmOp.by = "pScore" /\ tmOp.arg = 0
  /\ tmOp.lim.time = 60000 /\ tmOp.lim.inc = 0 /\ tmOp.lim.movestogo = 0
  /\ optMoveOverhead = 30 /\ ~optPonder /\ optNodestime = 0
  /\ optimumTime = 1079 /\ maximumTime = 4557

\* C20: after probe(key) has hit an occupied slot, the slot's generation
\* bits are the table's current generation, however many searches ago the
\* slot was written or refreshed.
C20_HitHasCurrentGeneration ==
  ttOp.op = "probe" /\ ttOp.found =>
    BitAnd(EntryAt(table, ttOp.c, ttOp.i).genBound8, 252) = generation8

\* The slots of the clusters that hold an entry before or after a step
TouchedSlots == DOMAIN table \cup DOMAIN table'

\* C21: a probe changes at most the upper six bits of genBound8 of the slot
\* it hits: that slot's other fields and its two bound bits stay, also when
\* the addition wraps past 255; no other slot changes; a probe that returns
\* an empty slot or a replacement victim changes nothing.
C21_ProbeTouchesGenerationOnly ==
  [][ttOp'.op = "probe" =>
       /\ \A p \in TouchedSlots :
            p # <<ttOp'.c, ttOp'.i>> => EntryAt(table', p[1], p[2]) = EntryAt(table, p[1], p[2])
       /\ LET before == EntryAt(table, ttOp'.c, ttOp'.i)
              after  == EntryAt(table', ttOp'.c, ttOp'.i)
          IN  /\ [after EXCEPT !.genBound8 = before.genBound8] = before
              /\ after.genBound8 % 4 = before.genBound8 % 4
       /\ ~ttOp'.found => table' = table]_vars

\* A hit whose refresh wrapped: the slot's generation bits are 0 after a
\* change, so the byte was 252 or more before
C21_Witness ==
  /\ ttOp.op = "probe" /\ ttOp.found /\ ttOp.changed
  /\ EntryAt(table, ttOp.c, ttOp.i).genBound8 \in 1..3
  /\ Cardinality(DOMAIN table) = ClusterSize

\* The generations between a slot's generation and the current one
RelativeAge(e) == ((generation8 \div 4) - (e.genBound8 \div 4)) % 64

\* depth minus 8 per generation of relative age
ValueOfSlot(c, i) ==
  EntryAt(table, c, i).depth8 - 8 * RelativeAge(EntryAt(table, c, i))

\* No slot of cluster c is empty or holds key16
ClusterFullWithout(c, key16) ==
  \A i \in 0 .. ClusterSize - 1 : EntryAt(table, c, i).key16 \notin {0, key16}

\* C22: when no slot of the key's cluster is empty or matches, probe returns
\* found = false and the slot of the least value depth8 - 8 * relative age,
\* the earliest of the cluster among slots of equal value.
C22_VictimHasLeastValue ==
  ttOp.op = "probe" /\ ClusterFullWithout(ttOp.c, Key16(ttOp.key)) =>
    /\ ~ttOp.found
    /\ \A j \in 0 .. ClusterSize - 1 :
         /\ ValueOfSlot(ttOp.c, j) >= ValueOfSlot(ttOp.c, ttOp.i)
         /\ ValueOfSlot(ttOp.c, j) = ValueOfSlot(ttOp.c, ttOp.i) => j >= ttOp.i

\* The victim is slot 1: slot 0 is worth more, slot 2 as much, with another
\* depth and another age
C22_Witness ==
  /\ ttOp.op = "probe" /\ ~ttOp.found /\ ttOp.i = 1
  /\ ClusterFullWithout(ttOp.c, Key16(ttOp.key))
  /\ ValueOfSlot(ttOp.c, 0) > ValueOfSlot(ttOp.c, 1)
  /\ ValueOfSlot(ttOp.c, 2) = ValueOfSlot(ttOp.c, 1)
  /\ EntryAt(table, ttOp.c, 2).depth8 # EntryAt(table, ttOp.c, 1).depth8

\* C23: for every generation g in {0, 4, ..., 252} and every byte genBound8,
\* (259 + g - genBound8) & 0xFC is 4 * ((g/4 - genBound8/4) mod 64): it
\* depends on the slot's generation bits only, not on its bound bits, also
\* where the generation counter has wrapped.
C23_AgeTermIsRelativeAge ==
  ttOp.op = "age" => ttOp.result = 4 * RelativeAge(EntryAt(table, 0, 0))

\* The counter has wrapped (the slot's generation is above the current
\* one) and the slot has bound bits
C23_Witness ==
  /\ ttOp.op = "age"
  /\ generation8 = 4 /\ EntryAt(table, 0, 0).genBound8 = 255
  /\ ttOp.result = 8

\* The calls of the last resize() that release memory, and those that
\* acquire it
Releases(calls) ==
  {k \in 1 .. Len(calls) : calls[k].call \in {"free", "VirtualFree"}}

Acquires(calls) ==
  {k \in 1 .. Len(calls) : calls[k].call \in {"calloc", "VirtualAlloc"}}

\* C26: a resize that reallocates releases the previous allocation exactly
\* once, before it acquires, with the deallocator of the allocator the memory
\* came from; afterwards large_pages_used is true exactly when the memory came
\* from VirtualAlloc; a failed VirtualAlloc is followed by calloc; the
\* process exits only if no allocation succeeded.
C26_ReallocationDiscipline ==
  /\ [](mem # NULL => (large_pages_used <=> IsLargeRegion(mem)))
  /\ [][ttOp'.op \in {"resize", "load"} =>
         LET calls == ttOp'.calls
         IN  /\ calls = << >> => mem' = mem /\ exited' = exited
             /\ calls # << >> =>
                  /\ Releases(calls) = IF mem # NULL THEN {1} ELSE {}
                  /\ mem # NULL =>
                       /\ calls[1].mem = mem
                       /\ calls[1].call = "VirtualFree" <=> IsLargeRegion(mem)
                  /\ \A k \in Acquires(calls) :
                       /\ calls[k].call = "VirtualAlloc" /\ calls[k].mem = NULL
                            => k < Len(calls) /\ calls[k + 1].call = "calloc"
                       /\ calls[k].mem # NULL =>
                            /\ k = Len(calls) /\ mem' = calls[k].mem
                            /\ IsLargeRegion(mem') <=> calls[k].call = "VirtualAlloc"
                  /\ exited' <=> \A k \in Acquires(calls) : calls[k].mem = NULL
                  /\ exited' => mem' = NULL]_vars

\* A large-page region was released with VirtualFree, VirtualAlloc failed
\* and calloc took over
C26_Witness ==
  /\ ttOp.op = "resize" /\ Len(ttOp.calls) = 3
  /\ ttOp.calls[1].call = "VirtualFree" /\ IsLargeRegion(ttOp.calls[1].mem)
  /\ ttOp.calls[2] = HeapCall("VirtualAlloc", NULL)
  /\ ttOp.calls[3] = HeapCall("calloc", mem)
  /\ mem # NULL /\ ~large_pages_used /\ ~exited

\* C27: in a registry of two or more nodes nodeForThread returns from
\* inside its loop for every thread index, because threadIdx mod coreCount
\* is smaller than the sum of the nodes' core counts; the return behind the
\* loop is never reached.
C27_FallbackUnreachable ==
  numaOp.op = "nodeForThread" /\ Len(nodeVector) >= 2 =>
    /\ ~numaOp.fallback
    /\ numaOp.threadIdx % coreCount < SumCores(nodeVector, 1)

\* The thread index is past the core count, and the walk ends in the last
\* node
C27_Witness ==
  /\ numaOp.op = "nodeForThread" /\ Len(nodeVector) >= 2
  /\ numaOp.threadIdx > coreCount
  /\ numaOp.node = Len(nodeVector) - 1 /\ ~numaOp.fallback

\* C24: when threads probe the same slot within one generation, with no
\* store, clear or resize in between, no refresh increases the slot's
\* relative age: the slot's generation is not pushed past the current one.
C24_RefreshNeverAges ==
  [][\A t \in Threads :
       ttThread[t].pc = "refresh" /\ ttThread'[t].pc = "probed" =>
         RelativeAge(EntryAt(table', ttThread[t].c, ttThread[t].i))
           <= RelativeAge(EntryAt(table, ttThread[t].c, ttThread[t].i))]_vars

\* C25: from clear() on, through probes each followed by a store into the
\* slot the probe returned, by one thread or by several, no cluster holds
\* two slots with the same non-zero key16.
C25_NoDuplicateKeyInCluster ==
  \A p \in DOMAIN table, q \in DOMAIN table :
    p # q /\ p[1] = q[1] /\ table[p].key16 # 0 => table[p].key16 # table[q].key16

=============================================================================
